---- MODULE Spec2Model ----
(***************************************************************************)
(* Model of templates/example-db-schema.py: a one-shot script that checks  *)
(* that a SQLite file exists, holds a table 'users' and that the table has *)
(* the columns id, email and created_at.  The environment (DB_PATH, the    *)
(* files on disk, the database catalog, a database fault) is chosen in     *)
(* Init and the script is run against it MaxRuns times in succession.      *)
(***************************************************************************)
EXTENDS Integers, Sequences, FiniteSets

VARIABLES
    env,        \* os.environ: [set, val], the DB_PATH variable
    files,      \* the files under the working directory, in directory order
    catalog,    \* sqlite_master of the database at DB_PATH, in rowid order
    fault,      \* the database operation that raises sqlite3.Error, and its message
    pc,         \* position of the running script
    out,        \* standard output of the running process, a sequence of lines
    exitCode,   \* exit status of the process, Running while it runs
    conn,       \* the sqlite3 connection: "none", "open" or "closed"
    columns,    \* the script's variable `columns`
    err,        \* the sqlite3.Error being handled, <<>> when none
    ops,        \* the filesystem and database operations the process has issued
    run,        \* number of the current run
    prevOut,    \* standard output of the previous run
    prevExit    \* exit status of the previous run

world == <<env, files, catalog, fault>>
proc == <<pc, out, exitCode, conn, columns, err, ops>>
vars == <<env, files, catalog, fault, pc, out, exitCode, conn, columns, err, ops,
          run, prevOut, prevExit>>

----------------------------------------------------------------------------
(* Bounds of the model *)

MaxFiles == 2
MaxCatalog == 2
MaxRuns == 2

Running == -1

----------------------------------------------------------------------------
(* Configuration, lines 10-13 *)

DefaultDbPath == <<"data", "/", "app", ".db">>
AltDbPath == <<"prod", ".sqlite">>

DB_PATH == IF env.set THEN env.val ELSE DefaultDbPath

REQUIRED_TABLE == "users"

REQUIRED_COLUMNS == {"id", "email", "created_at"}

----------------------------------------------------------------------------
(* The filesystem.  A path is a sequence of tokens; a file name is split   *)
(* at its dots, so "app.db" is <<"app", ".db">>.                            *)

FileUniverse ==
    { [root |-> <<".", "/", "data">>, name |-> <<"app", ".db">>],
      [root |-> <<".">>,              name |-> <<"prod", ".sqlite">>],
      [root |-> <<".">>,              name |-> <<"old", ".db">>],
      [root |-> <<".", "/", "data">>, name |-> <<"app", ".db", ".bak">>] }

Join2(root, f) == root \o <<"/">> \o f

Range(s) == { s[i] : i \in DOMAIN s }

NoDup(s) == \A i, j \in DOMAIN s : i # j => s[i] # s[j]

SeqsUpTo(S, n) == UNION { [1..k -> S] : k \in 0..n }

PathExists(fs, p) == \E f \in Range(fs) : Join2(f.root, f.name) = <<".", "/">> \o p

EndsWith(f, suffix) == Len(f) >= 1 /\ f[Len(f)] = suffix

IsDbFile(f) == EndsWith(f, ".db") \/ EndsWith(f, ".sqlite")

WalkRoots == << <<".">>, <<".", "/", "data">> >>

InDir(fs, root) == SelectSeq(fs, LAMBDA f : f.root = root)

RECURSIVE Walk(_, _)
Walk(fs, i) ==
    IF i > Len(WalkRoots) THEN <<>>
    ELSE InDir(fs, WalkRoots[i]) \o Walk(fs, i + 1)

----------------------------------------------------------------------------
(* Output lines *)

Line(k, a) == [k |-> k, a |-> a]

CheckingMsg == "Checking:"
NotFoundMsg == "FAIL: Database not found at"
LookingMsg == "Looking for database files..."
FoundMsg == "  Found:"
NoTableMsg == "FAIL: Table does not exist"
AvailTablesMsg == "Available tables:"
TableItemMsg == "  -"
MissingColsMsg == "FAIL: Missing columns in"
AvailColsMsg == "Available columns:"
PassMsg == "PASS: Table exists with required columns"
ColumnsMsg == "Columns:"
DbErrorMsg == "FAIL: Database error:"

RECURSIVE FoundLines(_)
FoundLines(fs) ==
    IF fs = <<>> THEN <<>>
    ELSE (IF IsDbFile(Head(fs).name)
             THEN <<Line(FoundMsg, Join2(Head(fs).root, Head(fs).name))>>
             ELSE <<>>) \o FoundLines(Tail(fs))

NotFoundLines(path, fs) ==
    << Line(NotFoundMsg, path),
       Line("", <<>>),
       Line(LookingMsg, <<>>) >> \o FoundLines(Walk(fs, 1))

----------------------------------------------------------------------------
(* The database.  sqlite_master is a sequence of [type, name, cols]        *)
(* entries; cols is the set of column names PRAGMA table_info reports.     *)

ColumnUniverse == {"id", "email", "created_at", "name"}

UsersEntries ==
    { [type |-> "table", name |-> "users", cols |-> c] :
        c \in (SUBSET ColumnUniverse) \ {{}} }

OtherEntries ==
    { [type |-> "view",  name |-> "users",        cols |-> REQUIRED_COLUMNS],
      [type |-> "table", name |-> "Users",        cols |-> REQUIRED_COLUMNS],
      [type |-> "table", name |-> "accounts",     cols |-> {"id"}],
      [type |-> "index", name |-> "idx_accounts", cols |-> {}] }

\* SQLite compares object names without regard to case
Fold(name) == IF name = "Users" THEN "users" ELSE name

UniqueNames(cat) == \A i, j \in DOMAIN cat : i # j => Fold(cat[i].name) # Fold(cat[j].name)

\* SELECT name FROM sqlite_master WHERE type='table' AND name=?
SelectTable(cat, tbl) ==
    SelectSeq(cat, LAMBDA e : e.type = "table" /\ e.name = tbl)

\* the listing query without its WHERE clause
SelectAllTables_NoFilter(cat) == cat

\* SELECT name FROM sqlite_master WHERE type='table'
SelectAllTables(cat) == SelectSeq(cat, LAMBDA e : e.type = "table")

\* PRAGMA table_info(tbl): the columns of the table or view of that name
TableInfo(cat, tbl) ==
    UNION { e.cols : e \in { x \in Range(cat) :
                x.type \in {"table", "view"} /\ Fold(x.name) = Fold(tbl) } }

NoFault == [op |-> "none", msg |-> ""]

Faults ==
    { NoFault,
      [op |-> "connect",      msg |-> "unable to open database file"],
      [op |-> "select_table", msg |-> "file is not a database"],
      [op |-> "select_table", msg |-> "database is locked"],
      [op |-> "select_all",   msg |-> "database is locked"],
      [op |-> "table_info",   msg |-> "database disk image is malformed"] }

----------------------------------------------------------------------------
(* Text formatting *)

\* code points of the column names, for the comparison sorted() makes
Code(s) ==
    CASE s = "id"         -> <<105, 100>>
      [] s = "email"      -> <<101, 109, 97, 105, 108>>
      [] s = "created_at" -> <<99, 114, 101, 97, 116, 101, 100, 95, 97, 116>>
      [] s = "name"       -> <<110, 97, 109, 101>>

LexLess(a, b) ==
    \E k \in 1..(Len(a) + 1) :
        /\ \A i \in 1..(k - 1) : i <= Len(b) /\ a[i] = b[i]
        /\ \/ k = Len(a) + 1 /\ Len(b) >= k
           \/ k <= Len(a) /\ k <= Len(b) /\ a[k] < b[k]

StrLess(s, t) == LexLess(Code(s), Code(t))

\* the orders in which the elements of S can be listed
Orders(S) ==
    { f \in [1..Cardinality(S) -> S] : \A x \in S : \E i \in DOMAIN f : f[i] = x }

Sorted(S) ==
    CHOOSE f \in Orders(S) : \A i, j \in DOMAIN f : i < j => StrLess(f[i], f[j])

RECURSIVE Join(_, _)
Join(sep, s) ==
    IF Len(s) <= 1 THEN s
    ELSE <<Head(s), sep>> \o Join(sep, Tail(s))

RECURSIVE TableLines(_)
TableLines(rows) ==
    IF rows = <<>> THEN <<>>
    ELSE <<Line(TableItemMsg, <<Head(rows).name>>)>> \o TableLines(Tail(rows))

\* the set difference taken the wrong way round
Missing_Swapped(cols) == cols \ REQUIRED_COLUMNS

Missing(cols) == REQUIRED_COLUMNS \ cols

----------------------------------------------------------------------------
(* The environment a run starts in *)

FileSeqs == { fs \in SeqsUpTo(FileUniverse, MaxFiles) : NoDup(fs) }

Catalogs ==
    { cat \in SeqsUpTo(UsersEntries \cup OtherEntries, MaxCatalog) : UniqueNames(cat) }

Envs == { [set |-> FALSE, val |-> <<>>], [set |-> TRUE, val |-> AltDbPath] }

Init ==
    /\ env \in Envs
    /\ files \in FileSeqs
    /\ IF PathExists(files, DB_PATH)
          THEN catalog \in Catalogs /\ fault \in Faults
          ELSE catalog = <<>> /\ fault = NoFault
    /\ pc = "start"
    /\ out = <<>>
    /\ exitCode = Running
    /\ conn = "none"
    /\ columns = {}
    /\ err = <<>>
    /\ ops = <<>>
    /\ run = 1
    /\ prevOut = <<>>
    /\ prevExit = Running

----------------------------------------------------------------------------
(* The script, one action per step *)

Exit(code) == pc' = "done" /\ exitCode' = code

\* a database operation raises sqlite3.Error: control goes to line 61
Raise(op) ==
    /\ fault.op = op
    /\ ops' = Append(ops, op)
    /\ err' = <<fault.msg>>
    /\ pc' = "except"
    /\ UNCHANGED <<world, out, exitCode, conn, columns, run, prevOut, prevExit>>

\* line 15
PrintChecking ==
    /\ pc = "start"
    /\ out' = Append(out, Line(CheckingMsg, DB_PATH))
    /\ pc' = "exists"
    /\ UNCHANGED <<world, exitCode, conn, columns, err, ops, run, prevOut, prevExit>>

\* the existence check without its sys.exit(1)
ExistenceCheck_NoExit ==
    /\ pc = "exists"
    /\ ops' = Append(ops, "exists")
    /\ out' = IF ~PathExists(files, DB_PATH)
                 THEN out \o NotFoundLines(DB_PATH, files) ELSE out
    /\ pc' = "connect"
    /\ UNCHANGED <<world, exitCode, conn, columns, err, run, prevOut, prevExit>>

\* lines 18-26
ExistenceCheck ==
    /\ pc = "exists"
    /\ ops' = Append(ops, "exists")
    /\ IF ~PathExists(files, DB_PATH)
          THEN /\ out' = out \o NotFoundLines(DB_PATH, files)
               /\ Exit(1)
          ELSE /\ pc' = "connect"
               /\ UNCHANGED <<out, exitCode>>
    /\ UNCHANGED <<world, conn, columns, err, run, prevOut, prevExit>>

\* the file sqlite3.connect creates when none exists at the path
NewFile(p) ==
    IF p = DefaultDbPath
       THEN [root |-> <<".", "/", "data">>, name |-> <<"app", ".db">>]
       ELSE [root |-> <<".">>, name |-> p]

\* lines 29-30
Connect ==
    /\ pc = "connect"
    /\ fault.op # "connect"
    /\ ops' = Append(ops, "connect")
    /\ conn' = "open"
    /\ files' = IF PathExists(files, DB_PATH) THEN files
                ELSE Append(files, NewFile(DB_PATH))
    /\ pc' = "select_table"
    /\ UNCHANGED <<env, catalog, fault, out, exitCode, columns, err, run, prevOut, prevExit>>

ConnectRaises == pc = "connect" /\ Raise("connect")

\* lines 33-40
TableExistsCheck ==
    /\ pc = "select_table"
    /\ fault.op # "select_table"
    /\ ops' = Append(ops, "select_table")
    /\ IF SelectTable(catalog, REQUIRED_TABLE) = <<>>
          THEN /\ out' = out \o << Line(NoTableMsg, <<REQUIRED_TABLE>>),
                                   Line("", <<>>),
                                   Line(AvailTablesMsg, <<>>) >>
               /\ pc' = "select_all"
          ELSE /\ pc' = "table_info"
               /\ out' = out
    /\ UNCHANGED <<world, exitCode, conn, columns, err, run, prevOut, prevExit>>

TableExistsRaises == pc = "select_table" /\ Raise("select_table")

\* the missing-table branch without its sys.exit(1)
ListTables_NoExit ==
    /\ pc = "select_all"
    /\ fault.op # "select_all"
    /\ ops' = Append(ops, "select_all")
    /\ out' = out \o TableLines(SelectAllTables(catalog))
    /\ pc' = "table_info"
    /\ UNCHANGED <<world, exitCode, conn, columns, err, run, prevOut, prevExit>>

\* lines 41-44
ListTables ==
    /\ pc = "select_all"
    /\ fault.op # "select_all"
    /\ ops' = Append(ops, "select_all")
    /\ out' = out \o TableLines(SelectAllTables(catalog))
    /\ Exit(1)
    /\ UNCHANGED <<world, conn, columns, err, run, prevOut, prevExit>>

ListTablesRaises == pc = "select_all" /\ Raise("select_all")

\* lines 47-48
ReadColumns ==
    /\ pc = "table_info"
    /\ fault.op # "table_info"
    /\ ops' = Append(ops, "table_info")
    /\ columns' = TableInfo(catalog, REQUIRED_TABLE)
    /\ pc' = "check_columns"
    /\ UNCHANGED <<world, out, exitCode, conn, err, run, prevOut, prevExit>>

ReadColumnsRaises == pc = "table_info" /\ Raise("table_info")

\* lines 50-57; a set is printed in the order its hash table yields, which
\* depends on the hash seed of the process
CheckColumns ==
    /\ pc = "check_columns"
    /\ IF Missing(columns) # {}
          THEN /\ \E m \in Orders(Missing(columns)), c \in Orders(columns) :
                    out' = out \o << Line(MissingColsMsg, <<REQUIRED_TABLE>> \o m),
                                     Line(AvailColsMsg, c) >>
               /\ Exit(1)
          ELSE /\ out' = out \o << Line(PassMsg, <<REQUIRED_TABLE>>),
                                   Line(ColumnsMsg, Join(", ", Sorted(columns))) >>
               /\ pc' = "close"
               /\ UNCHANGED exitCode
    /\ UNCHANGED <<world, conn, columns, err, ops, run, prevOut, prevExit>>

\* the success path without conn.close()
CloseConn_NoClose ==
    /\ pc = "close"
    /\ Exit(0)
    /\ UNCHANGED <<world, out, conn, columns, err, ops, run, prevOut, prevExit>>

\* line 59, then the end of the script
CloseConn ==
    /\ pc = "close"
    /\ ops' = Append(ops, "close")
    /\ conn' = "closed"
    /\ Exit(0)
    /\ UNCHANGED <<world, out, columns, err, run, prevOut, prevExit>>

\* the handler without its sys.exit(1): the script runs off its end
HandleSqliteError_NoExit ==
    /\ pc = "except"
    /\ out' = Append(out, Line(DbErrorMsg, err))
    /\ Exit(0)
    /\ UNCHANGED <<world, conn, columns, err, ops, run, prevOut, prevExit>>

\* the handler printing a fixed text instead of the exception's message
HandleSqliteError_NoMessage ==
    /\ pc = "except"
    /\ out' = Append(out, Line(DbErrorMsg, <<>>))
    /\ Exit(1)
    /\ UNCHANGED <<world, conn, columns, err, ops, run, prevOut, prevExit>>

\* lines 61-63
HandleSqliteError ==
    /\ pc = "except"
    /\ out' = Append(out, Line(DbErrorMsg, err))
    /\ Exit(1)
    /\ UNCHANGED <<world, conn, columns, err, ops, run, prevOut, prevExit>>

\* the script is run once more, in a new process, against the same world
RunAgain ==
    /\ pc = "done"
    /\ run < MaxRuns
    /\ run' = run + 1
    /\ prevOut' = out
    /\ prevExit' = exitCode
    /\ pc' = "start"
    /\ out' = <<>>
    /\ exitCode' = Running
    /\ conn' = "none"
    /\ columns' = {}
    /\ err' = <<>>
    /\ ops' = <<>>
    /\ UNCHANGED world

Next ==
    \/ PrintChecking
    \/ ExistenceCheck
    \/ Connect
    \/ ConnectRaises
    \/ TableExistsCheck
    \/ TableExistsRaises
    \/ ListTables
    \/ ListTablesRaises
    \/ ReadColumns
    \/ ReadColumnsRaises
    \/ CheckColumns
    \/ CloseConn
    \/ HandleSqliteError
    \/ RunAgain

Spec == Init /\ [][Next]_vars

----------------------------------------------------------------------------
(* Vocabulary of the properties *)

Done == pc = "done"

Raised == err # <<>>

FileThere == PathExists(files, DB_PATH)

HasLine(o, k) == \E i \in DOMAIN o : o[i].k = k

CountLines(o, K) == Cardinality({ i \in DOMAIN o : o[i].k \in K })

Precedes(a, b, s) == \E i, j \in DOMAIN s : i < j /\ s[i] = a /\ s[j] = b

IsPrefix(s, t) == Len(s) <= Len(t) /\ \A i \in DOMAIN s : s[i] = t[i]

\* the catalog entries of kind 'table' named exactly 'users'
UsersTables == { e \in Range(catalog) : e.type = "table" /\ e.name = "users" }

HasUsersTable == UsersTables # {}

\* the column set the database reports for the table 'users'
Observed == UNION { e.cols : e \in UsersTables }

TableNames == { e.name : e \in { x \in Range(catalog) : x.type = "table" } }

TerminalMsgs == {PassMsg, NotFoundMsg, NoTableMsg, MissingColsMsg, DbErrorMsg}

\* the column-introspection query has returned its rows
ColumnsObserved == "table_info" \in Range(ops) /\ ~Raised

PassRun ==
    /\ FileThere
    /\ HasUsersTable
    /\ REQUIRED_COLUMNS \subseteq Observed
    /\ ~Raised

\* s lists the elements of S once each, in ascending order, joined by ", "
IsSortedListing(s, S) ==
    /\ Len(s) = IF S = {} THEN 0 ELSE 2 * Cardinality(S) - 1
    /\ { s[i] : i \in { j \in DOMAIN s : j % 2 = 1 } } = S
    /\ \A i \in DOMAIN s : i % 2 = 0 => s[i] = ", "
    /\ \A i, j \in DOMAIN s : (i % 2 = 1 /\ j % 2 = 1 /\ i < j) => StrLess(s[i], s[j])

----------------------------------------------------------------------------
(* C1: when a run has ended its exit code is 0 or 1, and it is 0 exactly   *)
(* when the run is a PASS: the file exists, the catalog holds the table    *)
(* 'users', its columns include id, email and created_at, and no database  *)
(* error was raised.  The PASS message is printed in exactly those runs.   *)
C1_ExitCode ==
    Done =>
        /\ exitCode \in {0, 1}
        /\ (exitCode = 0) <=> PassRun
        /\ (exitCode = 0) <=> HasLine(out, PassMsg)

C1_Witness == Done /\ exitCode = 0 /\ PassRun /\ fault.op = "select_all"

----------------------------------------------------------------------------
----------------------------------------------------------------------------
\* what a missing-table run prints and does
MissingTableReport ==
    /\ Len(out) >= 4
    /\ out[2] = Line(NoTableMsg, <<"users">>)
    /\ out[3] = Line("", <<>>)
    /\ out[4] = Line(AvailTablesMsg, <<>>)
    /\ \A i \in 5..Len(out) : out[i].k = TableItemMsg /\ Len(out[i].a) = 1
    /\ { out[i].a[1] : i \in 5..Len(out) } = TableNames
    /\ Len(out) - 4 = Cardinality(TableNames)
    /\ exitCode = 1
    /\ "table_info" \notin Range(ops)

----------------------------------------------------------------------------
(* C4: once the existence check has found no file at the resolved path the *)
(* run is over: it has printed the 'Database not found' FAIL, then only    *)
(* 'Found:' lines, its exit code is 1 and it never opened a connection.    *)
C4_NotFound ==
    (pc \notin {"start", "exists"} /\ ~FileThere) =>
        /\ Done
        /\ exitCode = 1
        /\ Len(out) >= 4
        /\ out[2] = Line(NotFoundMsg, DB_PATH)
        /\ out[3] = Line("", <<>>)
        /\ out[4] = Line(LookingMsg, <<>>)
        /\ \A i \in 5..Len(out) : out[i].k = FoundMsg
        /\ CountLines(out, TerminalMsgs) = 1
        /\ conn = "none"
        /\ ops = <<"exists">>

C4_Witness == Done /\ ~FileThere /\ CountLines(out, {FoundMsg}) = 2

----------------------------------------------------------------------------
(* C5: a database error raised by the connection or by one of the queries  *)
(* is always handled: the run ends with 'FAIL: Database error:' and the    *)
(* message of the error as its last line, exit code 1, and no PASS.        *)
C5_DatabaseError ==
    /\ Raised => pc \in {"except", "done"}
    /\ (Done /\ Raised) =>
          /\ out[Len(out)] = Line(DbErrorMsg, <<fault.msg>>)
          /\ exitCode = 1
          /\ ~HasLine(out, PassMsg)

C5_Witness == Done /\ Raised /\ fault.msg = "file is not a database"

----------------------------------------------------------------------------
(* C6: the second of two runs in succession against the same DB_PATH,      *)
(* files and database prints what the first printed and exits as it did.   *)
C6_Idempotent == (Done /\ run >= 2) => (out = prevOut /\ exitCode = prevExit)

----------------------------------------------------------------------------
(* C7: a run that has ended has printed exactly one of the PASS message,   *)
(* the 'Database not found' FAIL, the missing-table FAIL, the              *)
(* missing-columns FAIL and the 'Database error' FAIL.                     *)
C7_OneOutcome == Done => CountLines(out, TerminalMsgs) = 1

----------------------------------------------------------------------------
(* C8: no step of a run changes the files on disk or the database catalog. *)
C8_NoWrites == [][files' = files /\ catalog' = catalog]_vars

C8_Witness == Done /\ run = 2 /\ conn = "closed" /\ Len(files) = 2

----------------------------------------------------------------------------
(* C9: when a run has ended the connection is closed exactly when the run  *)
(* printed PASS; after a missing-table FAIL, a missing-columns FAIL or a    *)
(* database error raised by a query the connection is still open; in a     *)
(* missing-file run there is no connection.                                *)
C9_ConnLifecycle ==
    Done =>
        /\ (conn = "closed") <=> HasLine(out, PassMsg)
        /\ (conn = "closed") <=> (exitCode = 0)
        /\ (HasLine(out, NoTableMsg) \/ HasLine(out, MissingColsMsg)) => conn = "open"
        /\ (Raised /\ fault.op # "connect") => conn = "open"
        /\ ~FileThere => conn = "none"

C9_Witness == Done /\ conn = "open" /\ HasLine(out, MissingColsMsg)

----------------------------------------------------------------------------
PassOrder == <<"exists", "connect", "select_table", "table_info", "close">>

NoTableOrder == <<"exists", "connect", "select_table", "select_all">>

LaterThanFile == {NoTableMsg, AvailTablesMsg, TableItemMsg, MissingColsMsg,
                  AvailColsMsg, PassMsg, ColumnsMsg, DbErrorMsg}

LaterThanTable == {MissingColsMsg, AvailColsMsg, PassMsg, ColumnsMsg}

(* C10: the checks run in one fixed order and stop at the first failure:   *)
(* 'Checking:' is the first line; the connection is opened only after the  *)
(* existence check found the file; the columns are read only after the     *)
(* table query found the table; after a failed check no later check runs   *)
(* and no line of a later check is printed.                                *)
C10_LinearChecks ==
    /\ pc # "start" => (out # <<>> /\ out[1] = Line(CheckingMsg, DB_PATH))
    /\ IsPrefix(ops, PassOrder) \/ IsPrefix(ops, NoTableOrder)
    /\ conn # "none" => (FileThere /\ Precedes("exists", "connect", ops))
    /\ "table_info" \in Range(ops) =>
          (HasUsersTable /\ Precedes("select_table", "table_info", ops))
    /\ HasLine(out, NotFoundMsg) => (Done /\ ops = <<"exists">> /\ \A k \in LaterThanFile : ~HasLine(out, k))
    /\ HasLine(out, NoTableMsg) =>
          /\ "table_info" \notin Range(ops)
          /\ \A k \in LaterThanTable : ~HasLine(out, k)
    /\ HasLine(out, MissingColsMsg) => (Done /\ "close" \notin Range(ops))
    /\ Raised => ops[Len(ops)] = fault.op
    /\ HasLine(out, DbErrorMsg) => (Done /\ out[Len(out)].k = DbErrorMsg)

C10_Witness ==
    /\ Done
    /\ HasLine(out, NoTableMsg)
    /\ ops = NoTableOrder
    /\ \E e \in Range(catalog) : e.type = "view" /\ e.name = "users"

====
